---- MODULE Spec2Model ----
(***************************************************************************)
(* Model of the binary search tree of src/search/bst.rs.                   *)
(*                                                                         *)
(* The heap of Rc<RefCell<Node<V>>> cells is a sequence of node records;   *)
(* a Link is the index of a cell, allocated in creation order, and the     *)
(* absent link (Option::None) is NoneLink.  Bst.root is a link.            *)
(***************************************************************************)
EXTENDS Integers, Sequences, FiniteSets

\* Bounds of the exploration.
MaxNodes == 5
MaxVal == 4

Values == 1..MaxVal
\* Values asked of contains: the inserted range and one value on either side.
Probes == 0..(MaxVal + 1)

\* Option::None of MaybeLink / MaybeWeakLink.
NoneLink == 0

VARIABLES
    root,      \* Bst.root : MaybeLink
    heap,      \* the allocated Node cells, heap[i] = [parent, left, right, value]
    inserted,  \* history: the values passed to insert, in order
    last,      \* history: the last operation performed and its arguments
    panicked   \* TRUE once an operation panicked

vars == <<root, heap, inserted, last, panicked>>

----------------------------------------------------------------------------
\* Node constructors

\* Node::root_link
root_link(value) ==
    [parent |-> NoneLink, left |-> NoneLink, right |-> NoneLink, value |-> value]

\* A constructor that forgets the parent back-reference.
link_orphan(parent, value) ==
    [parent |-> NoneLink, left |-> NoneLink, right |-> NoneLink, value |-> value]

\* Node::link
link(parent, value) ==
    [parent |-> parent, left |-> NoneLink, right |-> NoneLink, value |-> value]

\* Bst::empty
empty ==
    [root |-> NoneLink, heap |-> <<>>]

----------------------------------------------------------------------------
\* Placement: insert

\* deep_insert with the two branches swapped (smaller-or-equal goes right).
RECURSIVE deep_insert_flipped(_, _, _)
deep_insert_flipped(h, node, value) ==
    IF h[node].value <= value
    THEN IF h[node].right # NoneLink
         THEN deep_insert_flipped(h, h[node].right, value)
         ELSE Append([h EXCEPT ![node].right = Len(h) + 1], link(node, value))
    ELSE IF h[node].left # NoneLink
         THEN deep_insert_flipped(h, h[node].left, value)
         ELSE Append([h EXCEPT ![node].left = Len(h) + 1], link(node, value))

\* deep_insert that treats the tree as a set: an equal value is not stored again.
RECURSIVE deep_insert_set(_, _, _)
deep_insert_set(h, node, value) ==
    IF h[node].value = value
    THEN h
    ELSE IF h[node].value <= value
         THEN IF h[node].left # NoneLink
              THEN deep_insert_set(h, h[node].left, value)
              ELSE Append([h EXCEPT ![node].left = Len(h) + 1], link(node, value))
         ELSE IF h[node].right # NoneLink
              THEN deep_insert_set(h, h[node].right, value)
              ELSE Append([h EXCEPT ![node].right = Len(h) + 1], link(node, value))

\* deep_insert: node.value <= value descends left, otherwise right; the new
\* cell is attached to the first empty slot met.  Returns the new heap.
RECURSIVE deep_insert(_, _, _)
deep_insert(h, node, value) ==
    IF h[node].value <= value
    THEN IF h[node].left # NoneLink
         THEN deep_insert(h, h[node].left, value)
         ELSE Append([h EXCEPT ![node].left = Len(h) + 1], link(node, value))
    ELSE IF h[node].right # NoneLink
         THEN deep_insert(h, h[node].right, value)
         ELSE Append([h EXCEPT ![node].right = Len(h) + 1], link(node, value))

\* Bst::insert
insert(r, h, value) ==
    IF r # NoneLink
    THEN [root |-> r, heap |-> deep_insert(h, r, value)]
    ELSE [root |-> Len(h) + 1, heap |-> Append(h, root_link(value))]

----------------------------------------------------------------------------
\* Placement: search

\* deep_find descending to the wrong side.
RECURSIVE deep_find_wrong_side(_, _, _)
deep_find_wrong_side(h, node, value) ==
    IF h[node].value = value
    THEN node
    ELSE IF h[node].value > value
         THEN IF h[node].left = NoneLink
              THEN NoneLink
              ELSE deep_find_wrong_side(h, h[node].left, value)
         ELSE IF h[node].right = NoneLink
              THEN NoneLink
              ELSE deep_find_wrong_side(h, h[node].right, value)

\* deep_find whose match test is <= instead of ==.
RECURSIVE deep_find_loose(_, _, _)
deep_find_loose(h, node, value) ==
    IF h[node].value <= value
    THEN node
    ELSE IF h[node].value < value
         THEN IF h[node].left = NoneLink
              THEN NoneLink
              ELSE deep_find_loose(h, h[node].left, value)
         ELSE IF h[node].right = NoneLink
              THEN NoneLink
              ELSE deep_find_loose(h, h[node].right, value)

\* deep_find: the link of the first cell met whose value equals `value`,
\* descending left when node.value < value and right otherwise.
RECURSIVE deep_find(_, _, _)
deep_find(h, node, value) ==
    IF h[node].value = value
    THEN node
    ELSE IF h[node].value < value
         THEN IF h[node].left = NoneLink
              THEN NoneLink
              ELSE deep_find(h, h[node].left, value)
         ELSE IF h[node].right = NoneLink
              THEN NoneLink
              ELSE deep_find(h, h[node].right, value)

\* deep_contains
deep_contains(h, node, value) ==
    deep_find(h, node, value) # NoneLink

\* Bst::contains
contains(r, h, value) ==
    IF r = NoneLink THEN FALSE ELSE deep_contains(h, r, value)

----------------------------------------------------------------------------
\* Deletion

\* A deletion that drops the whole tree.
deep_delete_clear(r, h, value) ==
    [root |-> NoneLink, heap |-> h]

\* deep_delete: the body is empty, the tree is left as it is.
deep_delete(r, h, value) ==
    [root |-> r, heap |-> h]

\* Bst::remove
remove(r, h, value) ==
    IF r = NoneLink
    THEN [root |-> r, heap |-> h]
    ELSE deep_delete(r, h, value)

----------------------------------------------------------------------------
\* Structure seen from a link

\* The links reachable from n through the owning edges left/right (n included).
RECURSIVE Subtree(_, _)
Subtree(h, n) ==
    IF n = NoneLink
    THEN {}
    ELSE {n} \cup Subtree(h, h[n].left) \cup Subtree(h, h[n].right)

\* In-order traversal (left, node, right) of the values under n.
RECURSIVE InOrder(_, _)
InOrder(h, n) ==
    IF n = NoneLink
    THEN <<>>
    ELSE InOrder(h, h[n].left) \o <<h[n].value>> \o InOrder(h, h[n].right)

\* The values stored in the tree.
Stored(r, h) == {h[n].value : n \in Subtree(h, r)}

\* A Weak upgrades iff some owner still holds the cell: here, iff the cell is
\* reachable from the root.
Upgrades(r, h, n) == n \in Subtree(h, r)

\* shift_nodes(bst, node_a, o_node_b).
shift_nodes(r, h, a, b) ==
    IF h[a].parent = NoneLink
    THEN \* root.take() / root.replace(b); return
         [root |-> b, heap |-> h, panicked |-> FALSE]
    ELSE LET p == h[a].parent IN
         IF ~Upgrades(r, h, p)
         THEN [root |-> r, heap |-> h, panicked |-> TRUE]
         ELSE IF h[p].left # NoneLink
              THEN IF h[p].left = a
                   THEN \* left slot rewritten; return
                        [root |-> r, heap |-> [h EXCEPT ![p].left = b],
                         panicked |-> FALSE]
                   ELSE \* falls out of the if: only b's parent is fixed
                        [root |-> r,
                         heap |-> IF b # NoneLink
                                  THEN [h EXCEPT ![b].parent = p]
                                  ELSE h,
                         panicked |-> FALSE]
              ELSE \* parent has no left child: right slot rewritten; return
                   [root |-> r, heap |-> [h EXCEPT ![p].right = b],
                    panicked |-> FALSE]

----------------------------------------------------------------------------
\* State machine of the public operations

NoOp == [op |-> "new", arg |-> 0, a |-> NoneLink, b |-> NoneLink]

Init ==
    /\ root = empty.root
    /\ heap = empty.heap
    /\ inserted = <<>>
    /\ last = NoOp
    /\ panicked = FALSE

Insert ==
    /\ last.op # "shift"
    /\ Len(heap) < MaxNodes
    /\ \E v \in Values :
        LET res == insert(root, heap, v) IN
        /\ root' = res.root
        /\ heap' = res.heap
        /\ inserted' = Append(inserted, v)
        /\ last' = [op |-> "insert", arg |-> v, a |-> NoneLink, b |-> NoneLink]
    /\ UNCHANGED panicked

Remove ==
    /\ last.op # "shift"
    /\ \E v \in Probes :
        LET res == remove(root, heap, v) IN
        /\ root' = res.root
        /\ heap' = res.heap
        /\ last' = [op |-> "remove", arg |-> v, a |-> NoneLink, b |-> NoneLink]
    /\ UNCHANGED <<inserted, panicked>>

Next == Insert \/ Remove

Spec == Init /\ [][Next]_vars

----------------------------------------------------------------------------
\* State machine applying shift_nodes to the trees insert builds: node_a is a
\* node of the tree and o_node_b is absent or a node below node_a, as in the
\* transplants of a deletion.

ShiftNodes ==
    /\ last.op # "shift"
    /\ \E a \in Subtree(heap, root) :
       \E b \in {NoneLink} \cup (Subtree(heap, a) \ {a}) :
        LET res == shift_nodes(root, heap, a, b) IN
        /\ root' = res.root
        /\ heap' = res.heap
        /\ panicked' = res.panicked
        /\ last' = [op |-> "shift", arg |-> 0, a |-> a, b |-> b]
    /\ UNCHANGED inserted

NextShift == Insert \/ ShiftNodes

SpecShift == Init /\ [][NextShift]_vars

----------------------------------------------------------------------------
\* Properties

\* The number of cells of h whose value equals v and that hang under r.
CountEq(r, h, v) == Cardinality({n \in Subtree(h, r) : h[n].value = v})

\* s without its i-th element.
RemoveAt(s, i) == SubSeq(s, 1, i - 1) \o SubSeq(s, i + 1, Len(s))

\* C1: after any sequence of inserts on an empty tree, contains(v) is true for
\* every value v that was inserted.
C1_InsertedAreContained ==
    \A i \in 1..Len(inserted) : contains(root, heap, inserted[i])

\* C1 witness: several inserts, a repeated value among them, a tree of height
\* three or more, and the last operation is an insert.
C1_Witness ==
    /\ last.op = "insert"
    /\ Len(inserted) >= 4
    /\ \E i, j \in 1..Len(inserted) : i # j /\ inserted[i] = inserted[j]
    /\ \E n \in 1..Len(heap) :
         /\ heap[n].parent # NoneLink
         /\ heap[heap[n].parent].parent # NoneLink
    /\ \A i \in 1..Len(inserted) : contains(root, heap, inserted[i])

\* C2 (as claimed): after remove(v) on a tree with exactly one node equal to v,
\* contains(v) is false and every other inserted value is still contained.
C2_RemoveDeletesValue ==
    [][(last'.op = "remove" /\ CountEq(root, heap, last'.arg) = 1)
        => /\ ~contains(root', heap', last'.arg)
           /\ \A w \in Stored(root, heap) \ {last'.arg} :
                contains(root', heap', w)]_vars

\* C3: contains(v) is false for every value v not equal to a stored value, in
\* every reachable tree; on the empty tree it is false for every v.
C3_AbsentNotContained ==
    \A v \in Probes :
        v \notin Stored(root, heap) => ~contains(root, heap, v)

\* C3 witness: a tree of several nodes for which a probe between two stored
\* values, one below them and one above them are all absent and reported so.
C3_Witness ==
    /\ Len(heap) >= 3
    /\ \E v \in Probes :
         /\ v \notin Stored(root, heap)
         /\ \E lo, hi \in Stored(root, heap) : lo < v /\ v < hi
         /\ ~contains(root, heap, v)
    /\ ~contains(root, heap, 0)
    /\ ~contains(root, heap, MaxVal + 1)

\* C4: remove(v) on a tree storing no value equal to v changes neither root
\* nor any node's value or links, so contains is unchanged, and does not fail.
C4_RemoveAbsentIsNoOp ==
    [][(last'.op = "remove" /\ last'.arg \notin Stored(root, heap))
        => /\ root' = root
           /\ heap' = heap
           /\ \A w \in Probes : contains(root', heap', w) = contains(root, heap, w)
           /\ ~panicked']_vars

\* C4 witness: remove of an absent value has just run on a non-empty tree.
C4_Witness ==
    /\ last.op = "remove"
    /\ last.arg \notin Stored(root, heap)
    /\ Len(heap) >= 3
    /\ root # NoneLink
    /\ ~panicked

\* C5: at every node the whole left subtree holds values >= the node's value
\* and the whole right subtree holds values < it, so the in-order traversal is
\* non-increasing in every reachable state.
C5_OrderingInvariant ==
    /\ \A n \in Subtree(heap, root) :
         /\ \A l \in Subtree(heap, heap[n].left) : heap[l].value >= heap[n].value
         /\ \A g \in Subtree(heap, heap[n].right) : heap[g].value < heap[n].value
    /\ LET t == InOrder(heap, root) IN
         /\ Len(t) = Len(heap)
         /\ \A i \in 1..(Len(t) - 1) : t[i] >= t[i + 1]

\* C5 witness: a tree with a node holding two children, a grandchild, and a
\* repeated value.
C5_Witness ==
    /\ Len(heap) >= 4
    /\ \E n \in Subtree(heap, root) :
         heap[n].left # NoneLink /\ heap[n].right # NoneLink
    /\ \E n \in 1..Len(heap) :
         /\ heap[n].parent # NoneLink
         /\ heap[heap[n].parent].parent # NoneLink
    /\ \E i, j \in 1..Len(heap) : i # j /\ heap[i].value = heap[j].value

\* C6: every child c of a node n reachable from the root has c.parent = n, and
\* the root's parent is None.
C6_ParentConsistency ==
    /\ root # NoneLink => heap[root].parent = NoneLink
    /\ \A n \in Subtree(heap, root) :
         /\ heap[n].left # NoneLink => heap[heap[n].left].parent = n
         /\ heap[n].right # NoneLink => heap[heap[n].right].parent = n

\* C6 witness: a tree in which some node has a left and a right child, and a
\* child has a child of its own.
C6_Witness ==
    /\ root # NoneLink
    /\ \E n \in Subtree(heap, root) :
         /\ heap[n].left # NoneLink
         /\ heap[n].right # NoneLink
         /\ heap[heap[n].left].parent = n
         /\ heap[heap[n].right].parent = n
    /\ \E n \in Subtree(heap, root) :
         /\ heap[n].parent # NoneLink
         /\ heap[n].parent # root

\* The slots (node, side) of h whose content differs in g; h is a prefix of g.
ChangedSlots(h, g) ==
    {<<n, "left">> : n \in {m \in 1..Len(h) : g[m].left # h[m].left}}
    \cup {<<n, "right">> : n \in {m \in 1..Len(h) : g[m].right # h[m].right}}

\* C7: every insert(v), duplicates included, creates exactly one node, a leaf
\* holding v, attached to one slot that was empty (a child slot, or the root
\* slot of an empty tree); nothing else changes, and the number of nodes equals
\* the number of inserts.
C7_InsertAddsOneLeaf ==
    [][/\ Len(heap') = Len(inserted')
       /\ Len(inserted') = Len(inserted) + 1 =>
            LET new == Len(heap) + 1 IN
            /\ Len(heap') = Len(heap) + 1
            /\ heap'[new].value = last'.arg
            /\ heap'[new].left = NoneLink
            /\ heap'[new].right = NoneLink
            /\ \A n \in 1..Len(heap) :
                 /\ heap'[n].value = heap[n].value
                 /\ heap'[n].parent = heap[n].parent
            /\ IF root = NoneLink
               THEN /\ root' = new
                    /\ ChangedSlots(heap, heap') = {}
               ELSE /\ root' = root
                    /\ Cardinality(ChangedSlots(heap, heap')) = 1
                    /\ \A s \in ChangedSlots(heap, heap') :
                         IF s[2] = "left"
                         THEN heap[s[1]].left = NoneLink /\ heap'[s[1]].left = new
                         ELSE heap[s[1]].right = NoneLink /\ heap'[s[1]].right = new
      ]_vars

\* C7 witness: an insert of a value that was already stored has just run, and
\* the tree holds one node per insert.
C7_Witness ==
    /\ last.op = "insert"
    /\ Len(heap) >= 3
    /\ Len(heap) = Len(inserted)
    /\ \E i \in 1..(Len(inserted) - 1) : inserted[i] = last.arg
    /\ heap[Len(heap)].value = last.arg
    /\ heap[Len(heap)].left = NoneLink
    /\ heap[Len(heap)].right = NoneLink

\* C8 (as claimed): after remove(v) where the node holding v has two children,
\* the in-order traversal is the previous one with exactly one v taken out.
C8_RemoveTwoChildren ==
    [][(/\ last'.op = "remove"
        /\ contains(root, heap, last'.arg)
        /\ LET n == deep_find(heap, root, last'.arg) IN
             heap[n].left # NoneLink /\ heap[n].right # NoneLink)
        => \E i \in 1..Len(InOrder(heap, root)) :
             /\ InOrder(heap, root)[i] = last'.arg
             /\ InOrder(heap', root') = RemoveAt(InOrder(heap, root), i)]_vars

\* C9 (as claimed): shift_nodes of a by b rewrites exactly one slot: the root
\* slot if a has no parent, otherwise the slot of a's parent that holds a (by
\* identity), the parent's other slot and all other slots being unchanged.
C9_ShiftRewritesOneSlot ==
    [][last'.op = "shift" =>
         LET a == last'.a
             b == last'.b
             p == heap[a].parent
         IN IF p = NoneLink
            THEN /\ root' = b
                 /\ ChangedSlots(heap, heap') = {}
            ELSE /\ root' = root
                 /\ heap[p].left = a =>
                      /\ heap'[p].left = b
                      /\ heap'[p].right = heap[p].right
                 /\ heap[p].left # a =>
                      /\ heap'[p].right = b
                      /\ heap'[p].left = heap[p].left
                 /\ \A n \in (1..Len(heap)) \ {p} :
                      /\ heap'[n].left = heap[n].left
                      /\ heap'[n].right = heap[n].right
      ]_vars

\* C10 (as claimed): when shift_nodes of a by b returns with b present, b's
\* parent is a's former parent (None if a was the root).
C10_ShiftFixesParent ==
    [][(last'.op = "shift" /\ last'.b # NoneLink /\ ~panicked')
        => heap'[last'.b].parent = heap[last'.a].parent]_vars

====
